---- MODULE Spec2Model ----
(***************************************************************************)
(* A model of the video-transcription service: the in-memory job registry  *)
(* (src/src/jobs.py), the background pipeline process_transcription and    *)
(* the two HTTP handlers transcribe and status (src/src/main.py), with the *)
(* outcomes of the S3, Whisper, webhook and Consul primitives              *)
(* (src/src/s3.py, src/src/transcription.py, src/src/notifications.py)     *)
(* chosen nondeterministically among the results their code can produce.   *)
(*                                                                         *)
(* Strings that the code takes apart or puts together (S3 URIs, error      *)
(* messages, local paths) are sequences of one-character or fragment       *)
(* strings, so that slicing, splitting and concatenation are computed.     *)
(* A Python dict is a function whose DOMAIN is its set of keys: a job      *)
(* record has the key "result" only after line 35 of jobs.py has run.      *)
(***************************************************************************)
EXTENDS Integers, Sequences, FiniteSets, TLC

VARIABLES
    jobs,       \* jobs.py:14   the registry dict: job id -> record
    now,        \* datetime.utcnow(), in hours
    nextId,     \* the ids uuid4 has handed out so far are 1..nextId-1
    task,       \* per job id: the background task running process_transcription
    tmp,        \* the files under /tmp: local path -> content
    observed,   \* per job id: the statuses successive GET /status calls returned
    lastRead,   \* per job id: the body of the last GET /status response
    kv,         \* the Consul key-value store: key -> value
    client,     \* per job id: the script waiting on the job's Consul key
    poller,     \* per job id: the script polling GET /status for the job
    hist        \* history: per job id, the times of its creation, of the last write
                \* of its status, and of the last cleanup_jobs that looked at it

vars == <<jobs, now, nextId, task, tmp, observed, lastRead, kv, client, poller, hist>>

-----------------------------------------------------------------------------
(* Bounds of the model *)

MaxJobs == 1
TickHours == 12
MaxTime == 36
\* the submissions of the specification of concurrent jobs, SpecPair
MaxPairJobs == 2

(* Program constants *)

RetentionHours == 24

JobIds == 1..(IF MaxJobs > MaxPairJobs THEN MaxJobs ELSE MaxPairJobs)

None == "None"

-----------------------------------------------------------------------------
(* Strings as sequences *)

S3Prefix == <<"s", "3", ":", "/", "/">>

StartsWith(s, p) == Len(s) >= Len(p) /\ SubSeq(s, 1, Len(p)) = p

\* s[n:] of Python, n counted from 0
DropFirst(s, n) == SubSeq(s, n + 1, Len(s))

SlashPositions(s) == {i \in 1..Len(s) : s[i] = "/"}

Min(S) == CHOOSE x \in S : \A y \in S : x <= y
Max(S) == CHOOSE x \in S : \A y \in S : x >= y

\* s.split("/", 1)
SplitOnce(s) ==
    IF SlashPositions(s) = {} THEN <<s>>
    ELSE LET i == Min(SlashPositions(s))
         IN  <<SubSeq(s, 1, i - 1), SubSeq(s, i + 1, Len(s))>>

\* s.strip() == ""
IsBlank(s) == \A i \in 1..Len(s) : s[i] = " "

\* os.path.basename
basename(p) ==
    IF SlashPositions(p) = {} THEN p
    ELSE SubSeq(p, Max(SlashPositions(p)) + 1, Len(p))

parse_s3_uri(s3_uri) ==
    IF ~StartsWith(s3_uri, S3Prefix)
    THEN [ok |-> FALSE,
          msg |-> <<"Invalid S3 URI: ">> \o s3_uri \o <<". Must start with 's3://'">>]
    ELSE LET parts == SplitOnce(DropFirst(s3_uri, 5))
         IN  IF Len(parts) # 2
             THEN [ok |-> FALSE, msg |-> <<"Invalid S3 URI format: ">> \o s3_uri]
             ELSE IF parts[1] = <<>> \/ IsBlank(parts[1])
             THEN [ok |-> FALSE,
                   msg |-> <<"Invalid bucket name in S3 URI: ">> \o s3_uri]
             ELSE [ok |-> TRUE, bucket |-> parts[1], key |-> parts[2]]

\* f"/tmp/{os.path.basename(object_name)}"
local_path(object_name) == <<"/", "t", "m", "p", "/">> \o basename(object_name)

\* Python truthiness of an optional string and of a dict
TruthyStr(s) == s # None /\ s # ""
TruthyDict(d) == DOMAIN d # {}

-----------------------------------------------------------------------------
(* The requests the model submits *)

UriA  == <<"s", "3", ":", "/", "/", "b", "/", "a">>
UriC  == <<"s", "3", ":", "/", "/", "b", "/", "c">>
UriDA == <<"s", "3", ":", "/", "/", "b", "/", "d", "/", "a">>
UriNoScheme == <<"b", "/", "a">>
UriNoKey    == <<"s", "3", ":", "/", "/", "b">>
UriNoBucket == <<"s", "3", ":", "/", "/", "/", "a">>
UriEmptyKey == <<"s", "3", ":", "/", "/", "b", "/">>

Hook == "http://hook"

Req(i, o, w, c) ==
    [input_s3_path |-> i, output_s3_path |-> o, webhook_url |-> w,
     consul_notification |-> c]

Requests ==
    { Req(UriA, UriC, Hook, TRUE),
      Req(UriA, UriC, None, FALSE),
      Req(UriA, UriDA, Hook, TRUE),
      Req(UriNoScheme, UriC, Hook, TRUE),
      Req(UriA, UriNoKey, None, TRUE),
      Req(UriNoBucket, UriC, Hook, FALSE),
      Req(UriA, UriDA, None, FALSE),
      Req(UriEmptyKey, UriC, None, FALSE) }

\* str(e) of the exceptions the primitives raise
TransformErrors == {<<"bad codec">>}
FetchErrors     == {<<"connect timeout">>}
StoreErrors     == {<<"upload failed">>}
WebhookErrors   == {<<"invalid url">>}
NoSuchFile      == <<"No such file or directory">>
InvalidKey      == <<"Parameter validation failed: Invalid length for parameter Key">>
InvalidData     == <<"Invalid data found when processing input">>
KeyErrorMsg(job_id) == <<"'", ToString(job_id), "'">>

-----------------------------------------------------------------------------
(* Records *)

NoContent == [obj |-> <<>>, kind |-> "none"]

NoCalls == [download |-> 0, transcribe |-> 0, upload |-> 0, webhook |-> 0, consul |-> 0]

NoOutcomes ==
    [download |-> "none", transcribe |-> "none", upload |-> "none",
     webhook |-> "none", consul |-> "none"]

NoUpdate == [status |-> "none", result |-> [error |-> <<>>]]

IdleTask ==
    [pc |-> "idle", req |-> Req(<<>>, <<>>, None, FALSE), site |-> "none",
     upd |-> NoUpdate, uret |-> "none", audio |-> <<>>, trans |-> <<>>,
     text |-> NoContent, err |-> <<>>, calls |-> NoCalls, out |-> NoOutcomes,
     consul_key |-> <<>>, scheduled |-> 0]

\* what a poller holds before its first response
NoResponse == [status |-> "none"]

\* the body of a response that found no record
NullBody == [status |-> "null"]

\* scripts/transcribe.py: a client that has not looked at its key yet; `seen` is
\* the value its last kv.get returned and `ended` whether the pipeline of its
\* job had returned by then
NoValue == <<>>
NewClient == [state |-> "waiting", seen |-> NoValue, ended |-> FALSE]

\* scripts/transcribe.py: data.get("result") of a body with no result (None),
\* and a polling client before its first request; `data` is the body of the
\* last response it received
NoResult == [none |-> None]
NewPoller == [state |-> "polling", result |-> NoResult, data |-> NoResponse]

NoHist == [created |-> -1, updated |-> -1, swept |-> -1]

\* f"services/video-transcription/{job_id}"
standardized_key(job_id) == <<"services/video-transcription/", ToString(job_id)>>

\* dict operations
DictSet(d, k, v) == [x \in DOMAIN d \cup {k} |-> IF x = k THEN v ELSE d[x]]
DictDel(d, k) == [x \in DOMAIN d \ {k} |-> d[x]]

Init ==
    /\ jobs = [j \in {} |-> 0]
    /\ now = 0
    /\ nextId = 1
    /\ task = [j \in JobIds |-> IdleTask]
    /\ tmp = [p \in {} |-> NoContent]
    /\ observed = [j \in JobIds |-> <<>>]
    /\ lastRead = [j \in JobIds |-> NoResponse]
    /\ kv = [k \in {} |-> <<>>]
    /\ client = [j \in JobIds |-> NewClient]
    /\ poller = [j \in JobIds |-> NewPoller]
    /\ hist = [j \in JobIds |-> NoHist]

-----------------------------------------------------------------------------
(* src/src/jobs.py *)

\* (mutation) a registry whose new records start in another status
new_job_record_pending == [status |-> "pending", created_at |-> now]

\* create_job: the record a new job starts with
new_job_record == [status |-> "processing", created_at |-> now]

\* (mutation) a cutoff comparison that also removes a record exactly 24 hours old
expired_inclusive(job) == job["created_at"] <= now - RetentionHours

\* cleanup_jobs: the records the sweep deletes
expired(job) == job["created_at"] < now - RetentionHours

\* (mutation) a sweep that spares the records still in processing
cleanup_jobs_terminal_only ==
    /\ jobs' = [j \in {k \in DOMAIN jobs :
                          ~expired(jobs[k]) \/ jobs[k]["status"] = "processing"}
                  |-> jobs[j]]
    /\ hist' = [j \in JobIds |->
                  IF j \in DOMAIN jobs
                  THEN [hist[j] EXCEPT !.swept = now] ELSE hist[j]]
    /\ UNCHANGED <<now, nextId, task, tmp, observed, lastRead, kv, client, poller>>

cleanup_jobs ==
    /\ jobs' = [j \in {k \in DOMAIN jobs : ~expired(jobs[k])} |-> jobs[j]]
    /\ hist' = [j \in JobIds |->
                  IF j \in DOMAIN jobs
                  THEN [hist[j] EXCEPT !.swept = now] ELSE hist[j]]
    /\ UNCHANGED <<now, nextId, task, tmp, observed, lastRead, kv, client, poller>>

\* get_job_status, as GET /status/{job_id} calls it; the poller keeps the
\* statuses it saw, one entry per change
get_job_status(job_id) == IF job_id \in DOMAIN jobs THEN jobs[job_id] ELSE None

Observe(seen, status) ==
    IF seen # <<>> /\ seen[Len(seen)] = status THEN seen ELSE Append(seen, status)

\* GET /status/{job_id} for an id a submission has returned; for an id the
\* registry does not hold get_job_status returns None and the body is null
status(job_id) ==
    /\ job_id < nextId
    /\ IF job_id \in DOMAIN jobs
       THEN /\ observed' = [observed EXCEPT
                      ![job_id] = Observe(@, get_job_status(job_id)["status"])]
            /\ lastRead' = [lastRead EXCEPT ![job_id] = get_job_status(job_id)]
       ELSE /\ lastRead' = [lastRead EXCEPT ![job_id] = NullBody]
            /\ UNCHANGED observed
    /\ UNCHANGED <<jobs, now, nextId, task, tmp, hist, kv, client, poller>>

Tick ==
    /\ now + TickHours <= MaxTime
    /\ now' = now + TickHours
    /\ UNCHANGED <<jobs, nextId, task, tmp, observed, lastRead, kv, client, hist, poller>>

-----------------------------------------------------------------------------
(* src/src/main.py: POST /transcribe *)

\* (mutation) an id generator that hands out the id of the call before
reused_id == IF nextId > 1 THEN nextId - 1 ELSE nextId

\* jobs.py:18: job_id = str(uuid.uuid4()), an id no earlier call returned
fresh_id == nextId

\* (mutation) a handler that schedules the task and returns the id without
\* having created the record
schedule_without_record(request) ==
    /\ LET job_id == fresh_id
       IN  /\ task' = [task EXCEPT ![job_id] =
                         [IdleTask EXCEPT
                            !.pc = "start", !.req = request,
                            !.scheduled = task[job_id].scheduled + 1]]
           /\ hist' = [hist EXCEPT ![job_id] =
                         [created |-> now, updated |-> now, swept |-> -1]]
    /\ nextId' = nextId + 1
    /\ UNCHANGED <<jobs, now, tmp, observed, lastRead, kv, client, poller>>

\* lines 185-196: create_job(), then background_tasks.add_task(...); the task
\* record counts the pipeline executions scheduled for its id
create_and_schedule(request) ==
    /\ LET job_id == fresh_id
       IN  /\ jobs' = DictSet(jobs, job_id, new_job_record)
           /\ task' = [task EXCEPT ![job_id] =
                         [IdleTask EXCEPT
                            !.pc = "start", !.req = request,
                            !.consul_key =
                                IF request.consul_notification
                                THEN standardized_key(job_id) ELSE <<>>,
                            !.scheduled = task[job_id].scheduled + 1]]
           /\ hist' = [hist EXCEPT ![job_id] =
                         [created |-> now, updated |-> now, swept |-> -1]]
    /\ nextId' = nextId + 1
    /\ UNCHANGED <<now, tmp, observed, lastRead, kv, client, poller>>

transcribe(request) ==
    /\ nextId <= MaxJobs
    /\ create_and_schedule(request)

\* the same handler, for the submissions of SpecPair
transcribe_pair(request) ==
    /\ nextId <= MaxPairJobs
    /\ create_and_schedule(request)

-----------------------------------------------------------------------------
(* src/src/main.py: process_transcription *)

TryPcs ==
    {"download", "transcribe", "write", "upload", "webhook", "consul",
     "rm_audio", "rm_trans"}
UpdatePcs == {"u_check", "u_status", "u_result"}
TrySites == {"download", "upload", "completed"}

\* whether the statement the task is at lies inside try: ... (lines 124-169)
InTry(t) == t.pc \in TryPcs \/ (t.pc \in UpdatePcs /\ t.site \in TrySites)

\* a call update_job_status(job_id, status, result) made at `site`
CallUpdate(t, site, st, result) ==
    [t EXCEPT !.pc = "u_check", !.site = site,
              !.upd = [status |-> st, result |-> result]]

\* (mutation) a handler that records str(e) without the "Job failed: " prefix
except_handler_verbatim(t, msg) ==
    CallUpdate([t EXCEPT !.err = msg], "except", "failed", [error |-> msg])

\* lines 170-172: except Exception as e
except_handler(t, msg) ==
    CallUpdate([t EXCEPT !.err = msg], "except", "failed",
               [error |-> <<"Job failed: ">> \o msg])

\* an exception raised by the statement the task is at
Raise(t, msg) ==
    IF InTry(t) THEN except_handler(t, msg)
    ELSE [t EXCEPT !.pc = "crashed", !.err = msg]

\* where process_transcription goes on after update_job_status returns
AfterUpdate(site) ==
    CASE site = "completed" -> "webhook"
      [] site = "except" -> "x_exists_audio"
      [] OTHER -> "done"

Return(t, value) == [t EXCEPT !.pc = AfterUpdate(t.site), !.uret = value]

Called(t, step, outcome) ==
    [t EXCEPT !.calls[step] = @ + 1, !.out[step] = outcome]

\* lines 108-122
start(j) ==
    /\ task[j].pc = "start"
    /\ LET t == task[j]
           i == parse_s3_uri(t.req.input_s3_path)
           o == parse_s3_uri(t.req.output_s3_path)
       IN  task' = [task EXCEPT ![j] =
             IF ~i.ok
             THEN CallUpdate(t, "parse", "failed",
                      [error |-> <<"Failed to parse S3 URIs: ">> \o i.msg])
             ELSE IF ~o.ok
             THEN CallUpdate(t, "parse", "failed",
                      [error |-> <<"Failed to parse S3 URIs: ">> \o o.msg])
             ELSE [t EXCEPT !.pc = "download",
                            !.audio = local_path(i.key),
                            !.trans = local_path(o.key)]]
    /\ UNCHANGED <<jobs, now, nextId, tmp, observed, lastRead, kv, client, hist, poller>>

\* s3.py:45: the client refuses an empty object key before any request is made
\* (an exception that is no ClientError)
KeyAccepted(s3_uri) == parse_s3_uri(s3_uri).key # <<>>

\* lines 126-129, s3.download_file
download_ok(j) ==
    /\ task[j].pc = "download"
    /\ KeyAccepted(task[j].req.input_s3_path)
    /\ task' = [task EXCEPT ![j] =
                  [Called(@, "download", "ok") EXCEPT !.pc = "transcribe"]]
    /\ tmp' = DictSet(tmp, task[j].audio,
                      [obj |-> task[j].req.input_s3_path, kind |-> "audio"])
    /\ UNCHANGED <<jobs, now, nextId, observed, lastRead, kv, client, hist, poller>>

\* (mutation) a failed download that does not return and goes on to transcribe
on_download_false_fallthrough(t) == [t EXCEPT !.pc = "transcribe"]

\* (mutation) a failed download that is attempted again
on_download_false_retry(t) == [t EXCEPT !.pc = "download"]

\* (mutation) a failed download after which the task returns without recording
\* the failure
on_download_false_silent(t) == [t EXCEPT !.pc = "done"]

on_download_false(t) ==
    CallUpdate(t, "download", "failed",
               [error |-> <<"Failed to download audio file.">>])

download_false(j) ==
    /\ task[j].pc = "download"
    /\ KeyAccepted(task[j].req.input_s3_path)
    /\ task' = [task EXCEPT ![j] = on_download_false(Called(@, "download", "fail"))]
    /\ UNCHANGED <<jobs, now, nextId, tmp, observed, lastRead, kv, client, hist, poller>>

download_raise(j) ==
    /\ task[j].pc = "download"
    /\ \E m \in IF KeyAccepted(task[j].req.input_s3_path)
                THEN FetchErrors ELSE {InvalidKey} :
          task' = [task EXCEPT ![j] = Raise(Called(@, "download", "raise"), m)]
    /\ UNCHANGED <<jobs, now, nextId, tmp, observed, lastRead, kv, client, hist, poller>>

\* line 136, transcription.transcribe_audio
Readable(path) == path \in DOMAIN tmp

transcribe_ok(j) ==
    /\ task[j].pc = "transcribe"
    /\ Readable(task[j].audio) /\ tmp[task[j].audio].kind = "audio"
    /\ task' = [task EXCEPT ![j] =
                  [Called(@, "transcribe", "ok") EXCEPT
                     !.pc = "write",
                     !.text = [obj |-> tmp[task[j].audio].obj, kind |-> "text"]]]
    /\ UNCHANGED <<jobs, now, nextId, tmp, observed, lastRead, kv, client, hist, poller>>

transcribe_raise(j) ==
    /\ task[j].pc = "transcribe"
    /\ \E m \in IF ~Readable(task[j].audio) THEN {NoSuchFile}
                ELSE IF tmp[task[j].audio].kind # "audio" THEN {InvalidData}
                ELSE TransformErrors :
          task' = [task EXCEPT ![j] = Raise(Called(@, "transcribe", "raise"), m)]
    /\ UNCHANGED <<jobs, now, nextId, tmp, observed, lastRead, kv, client, hist, poller>>

\* lines 143-144
write(j) ==
    /\ task[j].pc = "write"
    /\ tmp' = DictSet(tmp, task[j].trans, task[j].text)
    /\ task' = [task EXCEPT ![j].pc = "upload"]
    /\ UNCHANGED <<jobs, now, nextId, observed, lastRead, kv, client, hist, poller>>

\* (mutation) a successful upload after which the notifications are sent
\* before the record is updated
upload_ok_notifies_first(j) ==
    /\ task[j].pc = "upload"
    /\ Readable(task[j].trans)
    /\ task' = [task EXCEPT ![j] =
                  [Called(@, "upload", "ok") EXCEPT !.pc = "webhook"]]
    /\ UNCHANGED <<jobs, now, nextId, tmp, observed, lastRead, kv, client, hist, poller>>

\* lines 147-150, s3.upload_file
upload_ok(j) ==
    /\ task[j].pc = "upload"
    /\ Readable(task[j].trans)
    /\ task' = [task EXCEPT ![j] =
                  CallUpdate(Called(@, "upload", "ok"), "completed", "completed",
                             [output_s3_path |-> task[j].req.output_s3_path])]
    /\ UNCHANGED <<jobs, now, nextId, tmp, observed, lastRead, kv, client, hist, poller>>

\* (mutation) a failed upload after which the notifications are still sent
on_upload_false_notifies(t) == [t EXCEPT !.pc = "webhook"]

on_upload_false(t) ==
    CallUpdate(t, "upload", "failed",
               [error |-> <<"Failed to upload transcription.">>])

upload_false(j) ==
    /\ task[j].pc = "upload"
    /\ Readable(task[j].trans)
    /\ task' = [task EXCEPT ![j] = on_upload_false(Called(@, "upload", "fail"))]
    /\ UNCHANGED <<jobs, now, nextId, tmp, observed, lastRead, kv, client, hist, poller>>

upload_raise(j) ==
    /\ task[j].pc = "upload"
    /\ \E m \in IF Readable(task[j].trans) THEN StoreErrors ELSE {NoSuchFile} :
          task' = [task EXCEPT ![j] = Raise(Called(@, "upload", "raise"), m)]
    /\ UNCHANGED <<jobs, now, nextId, tmp, observed, lastRead, kv, client, hist, poller>>

\* (mutation) a status write that replaces the whole record, losing created_at
update_status_replacing(j) ==
    /\ task[j].pc = "u_status"
    /\ jobs' = DictSet(jobs, j, [status |-> task[j].upd.status])
    /\ hist' = [hist EXCEPT ![j].updated = now]
    /\ task' = [task EXCEPT ![j].pc = "u_result"]
    /\ UNCHANGED <<now, nextId, tmp, observed, lastRead, kv, client, poller>>

\* (mutation) update_job_status without the membership test of line 32
update_check_unguarded(j) ==
    /\ task[j].pc = "u_check"
    /\ task' = [task EXCEPT ![j].pc = "u_status"]
    /\ UNCHANGED <<jobs, now, nextId, tmp, observed, lastRead, kv, client, hist, poller>>

\* jobs.update_job_status, line 32: if job_id in jobs
update_check(j) ==
    /\ task[j].pc = "u_check"
    /\ task' = [task EXCEPT ![j] =
                  IF j \in DOMAIN jobs THEN [@ EXCEPT !.pc = "u_status"]
                  ELSE Return(@, "False")]
    /\ UNCHANGED <<jobs, now, nextId, tmp, observed, lastRead, kv, client, hist, poller>>

\* jobs.update_job_status, line 33: jobs[job_id]["status"] = status
update_status(j) ==
    /\ task[j].pc = "u_status"
    /\ IF j \in DOMAIN jobs
       THEN /\ jobs' = [jobs EXCEPT ![j] = DictSet(@, "status", task[j].upd.status)]
            /\ hist' = [hist EXCEPT ![j].updated = now]
            /\ task' = [task EXCEPT ![j].pc = "u_result"]
       ELSE /\ task' = [task EXCEPT ![j] = Raise(@, KeyErrorMsg(j))]
            /\ UNCHANGED <<jobs, hist, poller>>
    /\ UNCHANGED <<now, nextId, tmp, observed, lastRead, kv, client, poller>>

\* jobs.update_job_status, lines 34-37: if result: jobs[job_id]["result"] = result
update_result(j) ==
    /\ task[j].pc = "u_result"
    /\ IF ~TruthyDict(task[j].upd.result)
       THEN /\ task' = [task EXCEPT ![j] = Return(@, "True")]
            /\ UNCHANGED jobs
       ELSE IF j \in DOMAIN jobs
       THEN /\ jobs' = [jobs EXCEPT ![j] = DictSet(@, "result", task[j].upd.result)]
            /\ task' = [task EXCEPT ![j] = Return(@, "True")]
       ELSE /\ task' = [task EXCEPT ![j] = Raise(@, KeyErrorMsg(j))]
            /\ UNCHANGED jobs
    /\ UNCHANGED <<now, nextId, tmp, observed, lastRead, kv, client, hist, poller>>

\* lines 155-156, notifications.send_webhook_notification
webhook_skip(j) ==
    /\ task[j].pc = "webhook"
    /\ ~TruthyStr(task[j].req.webhook_url)
    /\ task' = [task EXCEPT ![j].pc = "consul"]
    /\ UNCHANGED <<jobs, now, nextId, tmp, observed, lastRead, kv, client, hist, poller>>

\* requests.post succeeded, or raised a RequestException (caught, line 17)
webhook_returns(j) ==
    /\ task[j].pc = "webhook"
    /\ TruthyStr(task[j].req.webhook_url)
    /\ \E r \in {"ok", "fail"} :
          task' = [task EXCEPT ![j] = [Called(@, "webhook", r) EXCEPT !.pc = "consul"]]
    /\ UNCHANGED <<jobs, now, nextId, tmp, observed, lastRead, kv, client, hist, poller>>

\* requests.post raised an exception that is no RequestException
webhook_raise(j) ==
    /\ task[j].pc = "webhook"
    /\ TruthyStr(task[j].req.webhook_url)
    /\ \E m \in WebhookErrors :
          task' = [task EXCEPT ![j] = Raise(Called(@, "webhook", "raise"), m)]
    /\ UNCHANGED <<jobs, now, nextId, tmp, observed, lastRead, kv, client, hist, poller>>

\* lines 159-161, notifications.send_consul_notification: every Exception is caught
consul_skip(j) ==
    /\ task[j].pc = "consul"
    /\ ~task[j].req.consul_notification
    /\ task' = [task EXCEPT ![j].pc = "rm_audio"]
    /\ UNCHANGED <<jobs, now, nextId, tmp, observed, lastRead, kv, client, hist, poller>>

\* (mutation) a publish key that leaves the job id out
notification_key_shared(job_id) == <<"services/video-transcription/", "status">>

\* line 160: standardized_key = f"services/video-transcription/{job_id}"
notification_key(job_id) == <<"services/video-transcription/", ToString(job_id)>>

\* line 161: the value passed to send_consul_notification, the text completed
notification_value == <<"c", "o", "m", "p", "l", "e", "t", "e", "d">>

\* c.kv.put succeeded (the key now holds the value), or raised (caught)
consul_returns(j) ==
    /\ task[j].pc = "consul"
    /\ task[j].req.consul_notification
    /\ \E r \in {"ok", "fail"} :
          /\ task' = [task EXCEPT ![j] =
                        [Called(@, "consul", r) EXCEPT !.pc = "rm_audio"]]
          /\ kv' = IF r = "ok"
                   THEN DictSet(kv, notification_key(j), notification_value)
                   ELSE kv
    /\ UNCHANGED <<jobs, now, nextId, tmp, observed, lastRead, client, hist, poller>>

\* line 164: os.remove(local_audio_path)
rm_audio(j) ==
    /\ task[j].pc = "rm_audio"
    /\ IF task[j].audio \in DOMAIN tmp
       THEN /\ tmp' = DictDel(tmp, task[j].audio)
            /\ task' = [task EXCEPT ![j].pc = "rm_trans"]
       ELSE /\ task' = [task EXCEPT ![j] = Raise(@, NoSuchFile)]
            /\ UNCHANGED tmp
    /\ UNCHANGED <<jobs, now, nextId, observed, lastRead, kv, client, hist, poller>>

\* line 165: os.remove(local_transcription_path)
rm_trans(j) ==
    /\ task[j].pc = "rm_trans"
    /\ IF task[j].trans \in DOMAIN tmp
       THEN /\ tmp' = DictDel(tmp, task[j].trans)
            /\ task' = [task EXCEPT ![j].pc = "done"]
       ELSE /\ task' = [task EXCEPT ![j] = Raise(@, NoSuchFile)]
            /\ UNCHANGED tmp
    /\ UNCHANGED <<jobs, now, nextId, observed, lastRead, kv, client, hist, poller>>

\* line 176: if os.path.exists(local_audio_path)
x_exists_audio(j) ==
    /\ task[j].pc = "x_exists_audio"
    /\ task' = [task EXCEPT ![j].pc =
                  IF task[j].audio \in DOMAIN tmp THEN "x_rm_audio"
                  ELSE "x_exists_trans"]
    /\ UNCHANGED <<jobs, now, nextId, tmp, observed, lastRead, kv, client, hist, poller>>

\* line 177: os.remove(local_audio_path); an error ends the cleanup (lines 180-181)
x_rm_audio(j) ==
    /\ task[j].pc = "x_rm_audio"
    /\ IF task[j].audio \in DOMAIN tmp
       THEN /\ tmp' = DictDel(tmp, task[j].audio)
            /\ task' = [task EXCEPT ![j].pc = "x_exists_trans"]
       ELSE /\ task' = [task EXCEPT ![j].pc = "done"]
            /\ UNCHANGED tmp
    /\ UNCHANGED <<jobs, now, nextId, observed, lastRead, kv, client, hist, poller>>

\* line 178: if os.path.exists(local_transcription_path)
x_exists_trans(j) ==
    /\ task[j].pc = "x_exists_trans"
    /\ task' = [task EXCEPT ![j].pc =
                  IF task[j].trans \in DOMAIN tmp THEN "x_rm_trans" ELSE "done"]
    /\ UNCHANGED <<jobs, now, nextId, tmp, observed, lastRead, kv, client, hist, poller>>

\* line 179: os.remove(local_transcription_path)
x_rm_trans(j) ==
    /\ task[j].pc = "x_rm_trans"
    /\ IF task[j].trans \in DOMAIN tmp
       THEN tmp' = DictDel(tmp, task[j].trans)
       ELSE UNCHANGED tmp
    /\ task' = [task EXCEPT ![j].pc = "done"]
    /\ UNCHANGED <<jobs, now, nextId, observed, lastRead, kv, client, hist, poller>>

process_transcription(j) ==
    \/ start(j)
    \/ download_ok(j) \/ download_false(j) \/ download_raise(j)
    \/ transcribe_ok(j) \/ transcribe_raise(j)
    \/ write(j)
    \/ upload_ok(j) \/ upload_false(j) \/ upload_raise(j)
    \/ update_check(j) \/ update_status(j) \/ update_result(j)
    \/ webhook_skip(j) \/ webhook_returns(j) \/ webhook_raise(j)
    \/ consul_skip(j) \/ consul_returns(j)
    \/ rm_audio(j) \/ rm_trans(j)
    \/ x_exists_audio(j) \/ x_rm_audio(j) \/ x_exists_trans(j) \/ x_rm_trans(j)

-----------------------------------------------------------------------------

Next ==
    \/ \E request \in Requests : transcribe(request)
    \/ \E j \in JobIds : process_transcription(j)
    \/ \E j \in JobIds : status(j)
    \/ cleanup_jobs
    \/ Tick

Spec == Init /\ [][Next]_vars

\* Two jobs submitted one after the other whose pipelines run concurrently,
\* with no clock and no sweep
NextPair ==
    \/ \E request \in Requests : transcribe_pair(request)
    \/ \E j \in JobIds : process_transcription(j)

SpecPair == Init /\ [][NextPair]_vars

-----------------------------------------------------------------------------
(* src/scripts/transcribe.py: wait_for_job_completion_consul *)

Digits == {"0", "1", "2", "3", "4", "5", "6", "7", "8", "9"}

\* the characters a JSON document can start with (true, false and null apart)
JsonStarters == {"{", "[", "\"", "-"} \cup Digits

QuotePositions(s) == {i \in 1..Len(s) : s[i] = "\""}

\* the n-th smallest element of a set of numbers
Nth(S, n) == CHOOSE x \in S : Cardinality({y \in S : y < x}) = n - 1

\* json.loads(decoded_value) followed by .get: the documents the model reads
\* are objects with one string member, {"key":"value"}; a text that starts
\* like no JSON document raises, and so does .get on a document that is no object
json_loads(text) ==
    IF text = <<>> \/ text[1] \notin JsonStarters
    THEN [ok |-> FALSE, key |-> <<>>, value |-> <<>>]
    ELSE LET q == QuotePositions(text)
         IN  IF /\ text[1] = "{" /\ text[Len(text)] = "}"
                /\ Cardinality(q) = 4
                /\ Nth(q, 1) = 2 /\ Nth(q, 4) = Len(text) - 1
                /\ Nth(q, 3) = Nth(q, 2) + 2
                /\ text[Nth(q, 2) + 1] = ":"
             THEN [ok |-> TRUE,
                   key |-> SubSeq(text, 3, Nth(q, 2) - 1),
                   value |-> SubSeq(text, Nth(q, 3) + 1, Len(text) - 2)]
             ELSE [ok |-> FALSE, key |-> <<>>, value |-> <<>>]

StatusKey == <<"s", "t", "a", "t", "u", "s">>
CompletedText == <<"c", "o", "m", "p", "l", "e", "t", "e", "d">>
FailedText == <<"f", "a", "i", "l", "e", "d">>

\* lines 296-321: what one pass of the loop makes of the value under the key
reported(value) ==
    IF value = NoValue THEN "waiting"
    ELSE LET result_data == json_loads(value)
         IN  IF ~result_data.ok \/ result_data.key # StatusKey THEN "waiting"
             ELSE IF result_data.value = CompletedText THEN "completed"
             ELSE IF result_data.value = FailedText THEN "failed"
             ELSE "waiting"

\* lines 288-328: one pass of the loop, for the key the submission returned
client_poll(j) ==
    /\ j < nextId
    /\ task[j].consul_key # <<>>
    /\ client[j].state = "waiting"
    /\ LET key == task[j].consul_key
           value == IF key \in DOMAIN kv THEN kv[key] ELSE NoValue
       IN  client' = [client EXCEPT ![j] =
                        [state |-> reported(value), seen |-> value,
                         ended |-> task[j].pc = "done"]]
    /\ UNCHANGED <<jobs, now, nextId, task, tmp, observed, lastRead, kv, hist, poller>>

\* lines 288 and 330: the timeout has elapsed
client_timeout(j) ==
    /\ j < nextId
    /\ task[j].consul_key # <<>>
    /\ client[j].state = "waiting"
    /\ client' = [client EXCEPT ![j].state = "timeout"]
    /\ UNCHANGED <<jobs, now, nextId, task, tmp, observed, lastRead, kv, hist, poller>>

\* One job and the client that waits on its Consul key
NextClient ==
    \/ \E request \in Requests : transcribe(request)
    \/ \E j \in JobIds : process_transcription(j)
    \/ \E j \in JobIds : client_poll(j)
    \/ \E j \in JobIds : client_timeout(j)

SpecClient == Init /\ [][NextClient]_vars

-----------------------------------------------------------------------------
(* src/scripts/transcribe.py: wait_for_job_completion_polling *)

\* d.get(k): the value under k, None if d has no such key
DictGet(d, k) == IF k \in DOMAIN d THEN d[k] ELSE NoResult

\* (mutation) a pass of the loop in which the AttributeError of None.get is
\* not caught
poll_outcome_uncaught(data) ==
    IF data = NullBody THEN [state |-> "crashed", result |-> NoResult]
    ELSE IF data["status"] \in {"completed", "failed"}
    THEN [state |-> data["status"], result |-> DictGet(data, "result")]
    ELSE [state |-> "polling", result |-> NoResult]

\* lines 233-252: what one pass of the loop makes of the body of a 200
\* response; on a null body data.get raises AttributeError, which the except
\* of line 248 catches, and the loop goes on
poll_outcome(data) ==
    IF data = NullBody THEN [state |-> "polling", result |-> NoResult]
    ELSE IF data["status"] = "completed"
    THEN [state |-> "completed", result |-> DictGet(data, "result")]
    ELSE IF data["status"] = "failed"
    THEN [state |-> "failed", result |-> DictGet(data, "result")]
    ELSE [state |-> "polling", result |-> NoResult]

\* lines 225-252: one pass of the loop: GET /status/{job_id}, answered by
\* get_job_status
poll_once(j) ==
    /\ j < nextId
    /\ poller[j].state = "polling"
    /\ LET data == IF j \in DOMAIN jobs THEN get_job_status(j) ELSE NullBody
           o == poll_outcome(data)
       IN  poller' = [poller EXCEPT ![j] =
                        [state |-> o.state, result |-> o.result, data |-> data]]
    /\ UNCHANGED <<jobs, now, nextId, task, tmp, observed, lastRead, kv, client, hist>>

\* lines 225 and 253: the timeout has elapsed
poll_timeout(j) ==
    /\ j < nextId
    /\ poller[j].state = "polling"
    /\ poller' = [poller EXCEPT ![j].state = "timeout"]
    /\ UNCHANGED <<jobs, now, nextId, task, tmp, observed, lastRead, kv, client, hist>>

\* One job, the clock, the sweep, and the client that polls the job's status
NextPoll ==
    \/ \E request \in Requests : transcribe(request)
    \/ \E j \in JobIds : process_transcription(j)
    \/ \E j \in JobIds : poll_once(j)
    \/ \E j \in JobIds : poll_timeout(j)
    \/ cleanup_jobs
    \/ Tick

SpecPoll == Init /\ [][NextPoll]_vars

-----------------------------------------------------------------------------
\* Two jobs with a poller of each: the registry holds two records while
\* updates and status reads interleave
FrameRequests ==
    { Req(UriA, UriC, Hook, TRUE),
      Req(UriA, UriC, None, FALSE) }

NextFrame ==
    \/ \E request \in FrameRequests : transcribe_pair(request)
    \/ \E j \in JobIds : process_transcription(j)
    \/ \E j \in JobIds : status(j)

SpecFrame == Init /\ [][NextFrame]_vars

\* One job whose record no sweep evicts and whose task keeps being run: every
\* call it makes returns or raises, and the statement after it is executed
NextLive ==
    \/ \E request \in Requests : transcribe(request)
    \/ \E j \in JobIds : process_transcription(j)
    \/ \E j \in JobIds : status(j)

SpecLive ==
    /\ Init
    /\ [][NextLive]_vars
    /\ \A j \in JobIds : WF_vars(process_transcription(j))

-----------------------------------------------------------------------------
(* Properties *)

Terminal == {"completed", "failed"}
Finished(j) == task[j].pc \in {"done", "crashed"}
Present(j) == j \in DOMAIN jobs
HasResult(j) == "result" \in DOMAIN jobs[j]

\* C1: in every reachable state of the registry, the states between the two
\* writes of an update included, a job record has a result if and only if its
\* status is terminal (completed or failed).
C1_ResultIffTerminal ==
    \A j \in DOMAIN jobs : HasResult(j) <=> jobs[j]["status"] \in Terminal

\* C2: once a job record has a terminal status, no later step changes its
\* status; a job recorded as completed is never afterwards recorded as failed.
C2_TerminalIsFinal ==
    [][\A j \in DOMAIN jobs \cap DOMAIN jobs' :
          jobs[j]["status"] \in Terminal
              => jobs'[j]["status"] = jobs[j]["status"]]_vars

\* C3: the statuses a poller sees for a job, one after the other, never move
\* backward and never leave a terminal status: they are the non-terminal
\* status, then at most one terminal status.
AllowedObservations ==
    { <<>>, <<"processing">>, <<"completed">>, <<"failed">>,
      <<"processing", "completed">>, <<"processing", "failed">> }

C3_ObservedInPipelineOrder ==
    \A j \in JobIds : observed[j] \in AllowedObservations

\* C4: if the download of a job fails, by returning False or by raising, then
\* neither transcribe_audio nor upload_file is ever called for that job, and
\* the job's record (while the registry holds it) ends as failed.
C4_FetchFailureStopsPipeline ==
    \A j \in JobIds :
        task[j].out.download \in {"fail", "raise"} =>
            /\ task[j].calls.transcribe = 0
            /\ task[j].calls.upload = 0
            /\ (Finished(j) /\ Present(j)) =>
                   /\ jobs[j]["status"] = "failed"
                   /\ HasResult(j)
                   /\ DOMAIN jobs[j]["result"] = {"error"}

C4_Witness ==
    \E j \in DOMAIN jobs :
        /\ task[j].out.download = "raise"
        /\ task[j].pc = "done"
        /\ jobs[j]["status"] = "failed"

\* C5 as stated: if transcribe_audio fails with message m, upload_file is never
\* called, the job ends failed, and its result names the stage TRANSFORMING and
\* carries m verbatim.
C5_Original ==
    \A j \in JobIds :
        task[j].out.transcribe = "raise" =>
            /\ task[j].calls.upload = 0
            /\ (Finished(j) /\ Present(j)) =>
                   /\ jobs[j]["status"] = "failed"
                   /\ HasResult(j)
                   /\ {"stage", "message"} \subseteq DOMAIN jobs[j]["result"]
                   /\ jobs[j]["result"]["stage"] = "TRANSFORMING"
                   /\ jobs[j]["result"]["message"] = task[j].err

\* C5 as amended: if transcribe_audio fails with message m, upload_file is never
\* called, the job ends failed, and its result is {"error": "Job failed: " + m}:
\* m follows the prefix "Job failed: " and no field names the failing stage.
C5_TransformFailureRecorded ==
    \A j \in JobIds :
        task[j].out.transcribe = "raise" =>
            /\ task[j].calls.upload = 0
            /\ (Finished(j) /\ Present(j)) =>
                   /\ jobs[j]["status"] = "failed"
                   /\ HasResult(j)
                   /\ jobs[j]["result"] = [error |-> <<"Job failed: ">> \o task[j].err]

C5_Witness ==
    \E j \in DOMAIN jobs :
        /\ task[j].out.transcribe = "raise"
        /\ task[j].err = <<"bad codec">>
        /\ task[j].pc = "done"
        /\ jobs[j]["status"] = "failed"

\* C6: for a job with a webhook and a Consul target, a failed webhook delivery,
\* an error send_webhook_notification does not catch included, neither prevents
\* the Consul delivery attempt nor changes the recorded status from completed.
C6_WebhookFailureIsolated ==
    \A j \in JobIds :
        ( /\ task[j].pc = "done"
          /\ task[j].out.webhook \in {"fail", "raise"}
          /\ task[j].req.consul_notification ) =>
            /\ task[j].calls.consul = 1
            /\ Present(j) => jobs[j]["status"] = "completed"

\* C7: a job whose upload succeeded ends completed and stays completed,
\* whatever the outcome of each notification delivery.
C7_StoredJobEndsCompleted ==
    \A j \in JobIds :
        (task[j].pc = "done" /\ task[j].out.upload = "ok" /\ Present(j)) =>
            jobs[j]["status"] = "completed"

\* C8 as stated: while transcribe_audio runs a status query shows that the fetch
\* has completed (TRANSFORMING), and while upload_file runs it shows that the
\* transform has completed (STORING).
C8_Original ==
    \A j \in DOMAIN jobs :
        /\ task[j].pc = "transcribe" => jobs[j]["status"] = "TRANSFORMING"
        /\ task[j].pc = "upload" => jobs[j]["status"] = "STORING"

\* C8 as amended: the registry records no per-step transition; while the fetch,
\* the transform or the store step of a job is running, a status query shows
\* processing and no result, and only the terminal outcome is written.
C8_ProcessingWhileStepsRun ==
    \A j \in DOMAIN jobs :
        task[j].pc \in {"start", "download", "transcribe", "write", "upload"} =>
            /\ jobs[j]["status"] = "processing"
            /\ ~HasResult(j)

C8_Witness ==
    \E j \in DOMAIN jobs :
        /\ task[j].pc = "upload"
        /\ task[j].out.transcribe = "ok"
        /\ observed[j] = <<"processing">>

\* C9 as stated: after a sweep a record is absent exactly when the time since
\* its last update exceeds the retention window.
C9_Original ==
    \A j \in JobIds :
        hist[j].swept >= 0 =>
            (~Present(j) <=> hist[j].updated < hist[j].swept - RetentionHours)

\* C9 as amended: after a sweep a record is absent exactly when the time since
\* its creation exceeds the retention window; a job created longer ago than the
\* window is removed even if its status was written just before the sweep.
C9_EvictionByCreationTime ==
    \A j \in JobIds :
        hist[j].swept >= 0 =>
            (~Present(j) <=> hist[j].created < hist[j].swept - RetentionHours)

C9_Witness ==
    \E j \in JobIds :
        /\ ~Present(j)
        /\ hist[j].swept >= 0
        /\ hist[j].updated = hist[j].swept
        /\ hist[j].created < hist[j].swept - RetentionHours

\* C10: update_job_status on an id the registry does not hold returns False,
\* raises nothing and leaves the registry as it is: no record is re-created.
C10_UpdateOfAbsentId ==
    [][\A j \in JobIds :
          (task[j].pc = "u_check" /\ ~Present(j) /\ task'[j] # task[j]) =>
              /\ jobs' = jobs
              /\ task'[j].uret = "False"
              /\ task'[j].pc = AfterUpdate(task[j].site)
              /\ task'[j].err = task[j].err]_vars

C10_Witness ==
    \E j \in JobIds :
        /\ ~Present(j)
        /\ hist[j].swept >= 0
        /\ task[j].uret = "False"

\* C11: once the update made after the upload (main.py:152) has returned False
\* because the record was evicted, the pipeline of that job invokes no further
\* step and makes no notification delivery: its call counters stay as they are.
C11_AbandonsAfterNotFound ==
    [][\A j \in JobIds :
          (task[j].uret = "False" /\ task[j].site = "completed") =>
              task'[j].calls = task[j].calls]_vars

\* C12: under every interleaving of cleanup_jobs with the steps of an update
\* of the same id, no step of the update raises: no task ever holds the
\* KeyError of a record deleted between line 32 and lines 33-35, and no task
\* dies of an exception raised outside the try block.
C12_SweepUpdateRaceIsSafe ==
    \A j \in JobIds :
        /\ task[j].err # KeyErrorMsg(j)
        /\ task[j].pc # "crashed"

\* C13: the body of a GET /status response is never a partially applied update:
\* a response with a terminal status carries the result written by the same
\* update, an output path with completed and an error with failed, never a
\* terminal status with no result or with the result of an earlier update.
C13_ReadsSeeWholeUpdates ==
    \A j \in JobIds :
        lastRead[j]["status"] \in Terminal =>
            /\ "result" \in DOMAIN lastRead[j]
            /\ lastRead[j]["status"] = "completed" =>
                   DOMAIN lastRead[j]["result"] = {"output_s3_path"}
            /\ lastRead[j]["status"] = "failed" =>
                   DOMAIN lastRead[j]["result"] = {"error"}

\* C14: two jobs whose pipelines interleave do not touch each other's
\* intermediate files, equal base names included: when a job is about to
\* transcribe, its audio path holds the object that job downloaded, and when
\* it is about to upload, its transcription path holds the text that job wrote.
C14_JobsAreIndependent ==
    \A j \in JobIds :
        /\ task[j].pc = "transcribe" =>
               /\ Readable(task[j].audio)
               /\ tmp[task[j].audio] =
                      [obj |-> task[j].req.input_s3_path, kind |-> "audio"]
        /\ task[j].pc = "upload" =>
               /\ Readable(task[j].trans)
               /\ tmp[task[j].trans] = task[j].text

\* C15: when the pipeline of a job has returned, on whichever path, neither
\* the audio file nor the transcription file of that job is left under /tmp.
C15_TempFilesReleased ==
    \A j \in JobIds :
        task[j].pc = "done" =>
            /\ task[j].audio \notin DOMAIN tmp
            /\ task[j].trans \notin DOMAIN tmp

\* C16: a job whose download, transcription and upload all succeeded is, once
\* its pipeline has returned, recorded as completed with the result
\* {"output_s3_path": B}, B being the output path of its request.
C16_SuccessGivesOutputRef ==
    \A j \in JobIds :
        ( /\ task[j].pc = "done"
          /\ task[j].out.download = "ok"
          /\ task[j].out.transcribe = "ok"
          /\ task[j].out.upload = "ok"
          /\ Present(j) ) =>
            /\ jobs[j]["status"] = "completed"
            /\ HasResult(j)
            /\ jobs[j]["result"] =
                   [output_s3_path |-> task[j].req.output_s3_path]

\* C17: within one job, transcribe_audio is called only after download_file
\* returned True, upload_file only after transcribe_audio returned, and a
\* notification is sent only after upload_file returned True; a task is at one
\* statement at a time, so no two steps overlap.
C17_StepsInPipelineOrder ==
    \A j \in JobIds :
        /\ task[j].calls.transcribe > 0 => task[j].out.download = "ok"
        /\ task[j].pc = "transcribe" => task[j].out.download = "ok"
        /\ task[j].calls.upload > 0 => task[j].out.transcribe = "ok"
        /\ task[j].pc \in {"write", "upload"} => task[j].out.transcribe = "ok"
        /\ (task[j].calls.webhook > 0 \/ task[j].calls.consul > 0) =>
               task[j].out.upload = "ok"
        /\ task[j].pc \in {"webhook", "consul"} => task[j].out.upload = "ok"

C17_Witness ==
    \E j \in JobIds :
        /\ task[j].pc = "done"
        /\ task[j].calls =
               [download |-> 1, transcribe |-> 1, upload |-> 1,
                webhook |-> 1, consul |-> 1]
        /\ task[j].out.upload = "ok"

\* C18: no step is retried: for every job, download_file, transcribe_audio
\* and upload_file are each called at most once and each notification target
\* gets at most one delivery attempt, whatever the steps return or raise.
C18_NoStepRetried ==
    \A j \in JobIds :
        \A step \in DOMAIN NoCalls : task[j].calls[step] <= 1

C18_Witness ==
    \E j \in JobIds :
        /\ task[j].pc = "done"
        /\ task[j].out.download = "fail"
        /\ task[j].calls.download = 1

\* C19: every submission gets an id no earlier submission got and schedules
\* one pipeline execution for it: an id the registry holds has exactly one
\* execution, and no id ever has two.
C19_OneExecutionPerId ==
    \A j \in JobIds :
        /\ task[j].scheduled <= 1
        /\ Present(j) <=> task[j].scheduled = 1
        /\ task[j].scheduled = 1 <=> j < nextId

C19_Witness ==
    /\ nextId = 3
    /\ \A j \in {1, 2} :
          /\ task[j].scheduled = 1
          /\ task[j].pc = "transcribe"

\* C20: when the pipeline of a job has returned and the job is recorded with a
\* terminal status, failed included, a delivery has been attempted to each
\* target of the request: the webhook if it has a URL, Consul if it asked for it.
C20_TerminalOutcomeIsNotified ==
    \A j \in JobIds :
        (task[j].pc = "done" /\ Present(j) /\ jobs[j]["status"] \in Terminal) =>
            /\ TruthyStr(task[j].req.webhook_url) => task[j].calls.webhook = 1
            /\ task[j].req.consul_notification => task[j].calls.consul = 1

\* C21: the step that returns a new id leaves the id's record in the registry,
\* in its initial state, with the pipeline not yet past its first statement;
\* and a status query for a returned id answers null only if a sweep has
\* evicted the record: before that every query returns the record.
C21_RecordExistsFromSubmission ==
    [][ /\ nextId' # nextId =>
               /\ nextId \in DOMAIN jobs'
               /\ jobs'[nextId] = [status |-> "processing", created_at |-> now]
               /\ task'[nextId].pc = "start"
               /\ task'[nextId].calls = NoCalls
        /\ \A j \in JobIds :
               lastRead'[j] = NullBody =>
                   /\ hist'[j].swept >= 0
                   /\ hist'[j].created < hist'[j].swept - RetentionHours ]_vars

C21_Witness ==
    \E j \in DOMAIN jobs :
        /\ task[j].pc = "start"
        /\ lastRead[j] = jobs[j]
        /\ lastRead[j]["status"] = "processing"

\* C22: with no eviction and every call returning, the task of every submitted
\* job eventually returns with the job recorded as completed or failed, and no
\* task ever ends with an exception it did not handle.
C22_EveryJobTerminates ==
    /\ \A j \in JobIds : [](task[j].pc # "crashed")
    /\ \A j \in JobIds :
           (task[j].pc = "start") ~>
               ( /\ task[j].pc = "done"
                 /\ Present(j)
                 /\ jobs[j]["status"] \in Terminal )

C22_Witness ==
    \E j \in DOMAIN jobs :
        /\ task[j].pc = "done"
        /\ task[j].out.upload = "raise"
        /\ jobs[j]["status"] \in Terminal

\* C23: a job with no webhook URL and no Consul notification makes no
\* delivery attempt, and once its pipeline has returned after a successful
\* download, transcription and upload it is recorded as completed.
C23_ZeroTargetsStillCompletes ==
    \A j \in JobIds :
        ( /\ task[j].pc # "idle"
          /\ ~TruthyStr(task[j].req.webhook_url)
          /\ ~task[j].req.consul_notification ) =>
            /\ task[j].calls.webhook = 0
            /\ task[j].calls.consul = 0
            /\ ( /\ task[j].pc = "done"
                 /\ task[j].out.upload = "ok"
                 /\ Present(j) ) => jobs[j]["status"] = "completed"

\* C25: a job for which a completion notification was delivered, to the
\* webhook or to its Consul key, is recorded as completed once its pipeline
\* has returned.
C25_AnnouncedCompletedStaysCompleted ==
    \A j \in JobIds :
        ( /\ task[j].pc = "done"
          /\ Present(j)
          /\ (task[j].out.webhook = "ok" \/ task[j].out.consul = "ok") ) =>
            jobs[j]["status"] = "completed"

\* C26: at every step that makes a webhook call or a Consul publish for a
\* job, the job's record, if the registry holds it, already has the status
\* completed and the result {"output_s3_path": ...} of the request.
C26_CompletedBeforeNotifying ==
    [][\A j \in JobIds :
          ( /\ \/ task'[j].calls.webhook > task[j].calls.webhook
               \/ task'[j].calls.consul > task[j].calls.consul
            /\ Present(j) ) =>
              /\ jobs[j]["status"] = "completed"
              /\ HasResult(j)
              /\ jobs[j]["result"] =
                     [output_s3_path |-> task[j].req.output_s3_path]]_vars

C26_Witness ==
    \E j \in DOMAIN jobs :
        /\ task[j].pc = "rm_audio"
        /\ task[j].calls.webhook = 1
        /\ task[j].calls.consul = 1
        /\ jobs[j]["status"] = "completed"

\* a path of the form s3://bucket/key with a bucket that is not blank and a
\* key that is not empty
WellFormed(uri) ==
    /\ StartsWith(uri, S3Prefix)
    /\ \E i \in 7..(Len(uri) - 1) :
          /\ uri[i] = "/"
          /\ \A k \in 6..(i - 1) : uri[k] # "/"
          /\ \E k \in 6..(i - 1) : uri[k] # " "

\* C27: a job whose input or output path is not of the form s3://bucket/key,
\* with a bucket and a key that are not empty, calls no download, transcription,
\* upload or notification, and ends recorded as failed with a result whose
\* error starts with "Failed to parse S3 URIs: ".
C27_MalformedUriFailsAtParse ==
    \A j \in JobIds :
        ( /\ task[j].pc \notin {"idle", "start"}
          /\ \/ ~WellFormed(task[j].req.input_s3_path)
             \/ ~WellFormed(task[j].req.output_s3_path) ) =>
            /\ task[j].calls = NoCalls
            /\ (task[j].pc = "done" /\ Present(j)) =>
                   /\ jobs[j]["status"] = "failed"
                   /\ HasResult(j)
                   /\ "error" \in DOMAIN jobs[j]["result"]
                   /\ StartsWith(jobs[j]["result"]["error"],
                                 <<"Failed to parse S3 URIs: ">>)

\* C28: a step of update_job_status for one job changes at most the status
\* and the result of that job's record: the ids the registry holds, the
\* job's created_at and every other record stay as they are; and a status
\* read leaves the registry as it is.
C28_UpdateTouchesOneRecord ==
    [][ /\ \A j \in JobIds :
               ( /\ task[j].pc \in {"u_status", "u_result"}
                 /\ task'[j] # task[j] ) =>
                   /\ DOMAIN jobs' = DOMAIN jobs
                   /\ \A k \in DOMAIN jobs : k # j => jobs'[k] = jobs[k]
                   /\ j \in DOMAIN jobs =>
                          /\ DOMAIN jobs'[j] \subseteq DOMAIN jobs[j] \cup {"result"}
                          /\ DOMAIN jobs[j] \subseteq DOMAIN jobs'[j]
                          /\ jobs'[j]["created_at"] = jobs[j]["created_at"]
        /\ (lastRead' # lastRead \/ observed' # observed) => jobs' = jobs ]_vars

C28_Witness ==
    /\ DOMAIN jobs = {1, 2}
    /\ jobs[1]["status"] = "completed"
    /\ HasResult(1)
    /\ jobs[2]["status"] = "failed"
    /\ ~HasResult(2)
    /\ task[2].pc = "u_result"
    /\ lastRead[1] = jobs[1]

\* C24: a client waiting on the Consul key of its job reports the outcome:
\* once it has read the value the service published on completion it reports
\* completed, and it does not run into its timeout after a pass of its loop
\* made when the pipeline of its job had already returned.
C24_ClientReportsOutcome ==
    \A j \in JobIds :
        /\ client[j].seen = notification_value => client[j].state = "completed"
        /\ client[j].state = "timeout" => ~client[j].ended

\* C29: a step of cleanup_jobs removes every record created strictly earlier
\* than 24 hours before it, whatever the record's status, and no other: a
\* record created 24 hours before or later stays, with all its fields.
C29_SweepRemovesExactlyOld ==
    [][ ( \/ \E j \in JobIds : hist'[j].swept # hist[j].swept
          \/ DOMAIN jobs' # DOMAIN jobs /\ nextId' = nextId ) =>
            /\ DOMAIN jobs' \subseteq DOMAIN jobs
            /\ \A j \in DOMAIN jobs :
                   IF jobs[j]["created_at"] < now - RetentionHours
                   THEN j \notin DOMAIN jobs'
                   ELSE j \in DOMAIN jobs' /\ jobs'[j] = jobs[j] ]_vars

C29_Witness ==
    \E j \in DOMAIN jobs :
        /\ hist[j].swept = jobs[j]["created_at"] + RetentionHours
        /\ jobs[j]["status"] = "completed"
        /\ HasResult(j)

\* C30: the response to a submission carries a Consul key exactly when Consul
\* notification was requested; the key is services/video-transcription/
\* followed by the job id and is the key under which the pipeline publishes
\* the completion, and two jobs never have the same key.
C30_ResponseKeyIsPublishKey ==
    /\ \A j \in JobIds :
           j < nextId =>
               /\ task[j].consul_key # <<>> <=> task[j].req.consul_notification
               /\ task[j].req.consul_notification =>
                      task[j].consul_key =
                          <<"services/video-transcription/", ToString(j)>>
               /\ task[j].out.consul = "ok" =>
                      /\ task[j].consul_key \in DOMAIN kv
                      /\ kv[task[j].consul_key] = notification_value
               /\ \A k \in JobIds :
                      (k < nextId /\ k # j /\ task[j].consul_key # <<>>) =>
                          task[k].consul_key # task[j].consul_key
    /\ \A key \in DOMAIN kv :
           \E j \in JobIds :
               /\ task[j].consul_key = key
               /\ task[j].out.consul = "ok"

C30_Witness ==
    /\ Cardinality(DOMAIN kv) = 2
    /\ \A j \in {1, 2} :
          /\ task[j].out.consul = "ok"
          /\ task[j].consul_key \in DOMAIN kv

\* C31: the polling client reports completed or failed exactly when the
\* response it received shows that status, with the result of that response
\* (None if it has none); after a response that shows processing, or a null
\* body for a record the registry does not hold, it has reported no outcome
\* and has not crashed: it is still polling or has ended with timeout.
C31_PollerReportsWhatItRead ==
    \A j \in JobIds :
        /\ poller[j].state \in {"polling", "completed", "failed", "timeout"}
        /\ poller[j].state \in Terminal =>
               /\ poller[j].data["status"] = poller[j].state
               /\ poller[j].result =
                      IF "result" \in DOMAIN poller[j].data
                      THEN poller[j].data["result"] ELSE NoResult
        /\ poller[j].data["status"] \in Terminal =>
               poller[j].state = poller[j].data["status"]
        /\ poller[j].data["status"] \in {"processing", "null"} =>
               /\ poller[j].state \in {"polling", "timeout"}
               /\ poller[j].result = NoResult

C31_Witness ==
    \E j \in JobIds :
        /\ ~Present(j)
        /\ poller[j].data = NullBody
        /\ poller[j].state = "timeout"

====
